---- MODULE Spec2Model ----
(***************************************************************************)
(* A model of EasyDelegate's DelegateSet (src/include/easydelegate.hpp):   *)
(* a std::set of DelegateBase pointers, ordered by pointer value, with     *)
(* bulk invocation and four removal operations.                            *)
(*                                                                         *)
(* A delegate object lives at an address (a number: the pointer value).    *)
(* The heap holds MaxAddr delegate objects, constructed before the set is  *)
(* used; what each one wraps is an input, drawn in Init.  The removal      *)
(* scans are modelled one loop iteration per step, because they erase the  *)
(* element their iterator points to and then advance that iterator.        *)
(***************************************************************************)
EXTENDS Integers, Sequences, FiniteSets, TLC

\* Number of delegate objects on the heap (addresses 1..MaxAddr).
MaxAddr == 3
\* Number of distinct static functions / member functions (pointers 1..MaxProc).
MaxProc == 2
\* Number of distinct object instances a member delegate can be bound to.
MaxThis == 2
\* Number of distinct argument lists a caller passes (arguments 1..MaxParam).
MaxParam == 2
\* Number of dispatches of the cached delegate that are followed.
MaxDispatch == 3

\* The NULL pointer, for every pointer type.
NULL == 0

Addr == 1..MaxAddr
Procs == 1..MaxProc
Objects == 1..MaxThis
Params == 1..MaxParam

\* The arguments the example passes to every call: ("Foo", 3.14, 3.14159).
ExampleParams == 1

\* A function of the caller's that throws a std::exception when called.
ThrowingProc == MaxProc + 1

\* set<...>::end(), as an iterator position.
End == MaxAddr + 1

\* StaticDelegate(procAddress): DelegateBase(false), which is
\* GenericDelegate(false, false), and mProcAddress(procAddress).
StaticDelegate(procAddress) ==
    [class |-> "StaticDelegate", mIsMemberDelegate |-> FALSE, mIsCachedDelegate |-> FALSE,
     mProcAddress |-> procAddress, mThisPtr |-> NULL]

\* MemberDelegate(thisPtr, procAddress): mThisPtr(thisPtr),
\* mProcAddress(procAddress), DelegateBase(true).
MemberDelegate(thisPtr, procAddress) ==
    [class |-> "MemberDelegate", mIsMemberDelegate |-> TRUE, mIsCachedDelegate |-> FALSE,
     mProcAddress |-> procAddress, mThisPtr |-> thisPtr]

\* A copy constructor that constructs the base as a MemberDelegate does.
CopyConstructFlaggedMember(other) ==
    [other EXCEPT !.mIsMemberDelegate = TRUE]

\* The copy constructors: StaticDelegate(other) is DelegateBase(false) and
\* mProcAddress(other.mProcAddress); MemberDelegate(other) is
\* mThisPtr(other.mThisPtr), mProcAddress(other.mProcAddress), DelegateBase(true).
CopyConstruct(other) ==
    IF other.class = "MemberDelegate"
    THEN MemberDelegate(other.mThisPtr, other.mProcAddress)
    ELSE StaticDelegate(other.mProcAddress)

\* The delegates the caller constructs: every target is non-null.
DelegateValues ==
    {StaticDelegate(p) : p \in Procs}
        \cup {MemberDelegate(t, p) : t \in Objects, p \in Procs}

\* Every delegate a caller can construct: the pointers may be NULL, and a
\* static function may be one that throws.
AnyDelegateValues ==
    {StaticDelegate(p) : p \in {NULL, ThrowingProc} \cup Procs}
        \cup {MemberDelegate(t, p) : t \in {NULL} \cup Objects, p \in {NULL} \cup Procs}

\* CachedStaticDelegate(procAddress, params...): mProcAddress, mParameters.
CachedStaticDelegate(procAddress, params) ==
    [isMember |-> FALSE, mProcAddress |-> procAddress, mThisPtr |-> NULL,
     mParameters |-> params]

\* CachedMemberDelegate(procAddress, thisPtr, params...): mThisPtr, mProcAddress, mParameters.
CachedMemberDelegate(procAddress, thisPtr, params) ==
    [isMember |-> TRUE, mProcAddress |-> procAddress, mThisPtr |-> thisPtr,
     mParameters |-> params]

\* Every cached delegate a caller can construct.
CachedValues ==
    {CachedStaticDelegate(p, a) : p \in {NULL} \cup Procs, a \in Params}
        \cup {CachedMemberDelegate(p, t, a) :
                 p \in {NULL} \cup Procs, t \in {NULL} \cup Objects, a \in Params}

VARIABLES
    obj,        \* the heap: obj[a] is the delegate object at address a
    set,        \* the DelegateSet: the pointers it holds (a std::set, kept in pointer order)
    order,      \* the pointers of the set in the order they were inserted
    deleted,    \* the addresses whose delegate object has been deleted
    pc,         \* "idle", "scan" (inside a removal loop), "crashed", "destroyed"
    it,         \* the removal loop's iterator: an address of the set, or End
    call,       \* the operation in progress or last completed, with its inputs and results
    ndebug,     \* the build: TRUE when NDEBUG is defined and assert() compiles to nothing
    cached      \* a cached delegate object the caller holds

vars == <<obj, set, order, deleted, pc, it, call, ndebug, cached>>

\* No operation has been called yet.
NoCall ==
    [kind |-> "none", arg |-> NULL, del |-> FALSE, hasOut |-> FALSE,
     set0 |-> {}, out0 |-> {}, out |-> {}, ret |-> NULL,
     calls |-> <<>>, rets0 |-> <<>>, rets |-> <<>>, status |-> "ok",
     params |-> NULL, trace |-> <<>>, other |-> NULL, answer |-> FALSE,
     nth |-> 0, copy |-> NULL]

\* An empty DelegateSet and no call made yet.
InitSet ==
    /\ set = {}
    /\ order = <<>>
    /\ deleted = {}
    /\ pc = "idle"
    /\ it = End
    /\ call = NoCall

\* Every delegate has non-null targets, so no assert can fire and the build
\* makes no difference: it is fixed.
Init ==
    /\ obj \in [Addr -> DelegateValues]
    /\ InitSet
    /\ ndebug = TRUE
    /\ cached = CachedStaticDelegate(1, ExampleParams)

\* ---------------------------------------------------------------- helpers

\* The smallest element of a non-empty set of numbers.
Min(S) == CHOOSE x \in S : \A y \in S : x <= y

\* set::begin(): the smallest pointer held, or end() when the set is empty.
Begin(s) == IF s = {} THEN End ELSE Min(s)

\* it++ on a valid iterator: the next larger pointer held, or end().
Succ(s, a) == Begin({x \in s : x > a})

\* The pointers of s in descending pointer value.
RECURSIVE InReverseOrder(_)
InReverseOrder(s) ==
    IF s = {} THEN <<>> ELSE InReverseOrder(s \ {Min(s)}) \o <<Min(s)>>

\* An iteration order that is not stable: a bulk invoke that follows a bulk
\* invoke walks the set the other way round.
InOrderUnstable(s) ==
    LET r == InReverseOrder(s)
    IN  IF call.kind = "invoke"
        THEN r
        ELSE [i \in 1..Len(r) |-> r[Len(r) + 1 - i]]

\* The pointers of s in iteration order (ascending pointer value).
RECURSIVE InOrder(_)
InOrder(s) == IF s = {} THEN <<>> ELSE <<Min(s)>> \o InOrder(s \ {Min(s)})

\* seq without the element a.
Without(seq, a) == SelectSeq(seq, LAMBDA x : x # a)

\* ------------------------------------------------- the delegates' methods

\* What the wrapped functions return: myStaticMethod returns 5 and
\* MyCustomClass::myMemberMethod returns 2; the second function of each kind
\* is another function of the caller's (the lambda of example.cpp returns 25).
StaticReturn(procAddress) == IF procAddress = 1 THEN 5 ELSE 25
MemberReturn(procAddress) == IF procAddress = 1 THEN 2 ELSE 5

\* StaticDelegate::has_procaddress / MemberDelegate::has_procaddress, static address.
HasProcAddressStatic(d, procAddress) ==
    IF d.mIsMemberDelegate THEN FALSE ELSE d.mProcAddress = procAddress

\* DelegateBase::has_procaddress<className>, member address.
HasProcAddressMember(d, procAddress) ==
    IF ~d.mIsMemberDelegate THEN FALSE ELSE d.mProcAddress = procAddress

\* has_thispointer comparing the stored pointer whatever the delegate's kind.
HasThisPointerAnyKind(d, thisPointer) == d.mThisPtr = thisPointer

\* StaticDelegate::has_thispointer / MemberDelegate::has_thispointer.
HasThisPointer(d, thisPointer) ==
    IF d.mIsMemberDelegate THEN d.mThisPtr = thisPointer ELSE FALSE

\* An equality that also compares the instance a member delegate is bound to.
DelegateEqualsSameInstance(a, b) ==
    /\ a.mIsMemberDelegate = b.mIsMemberDelegate
    /\ b.mProcAddress = a.mProcAddress
    /\ b.mThisPtr = a.mThisPtr

\* operator== of StaticDelegate and MemberDelegate, a == b: the overload taking
\* the same class compares other.mProcAddress == mProcAddress, the overloads
\* taking a delegate of the other kind return false.
DelegateEquals(a, b) ==
    IF a.mIsMemberDelegate # b.mIsMemberDelegate
    THEN FALSE
    ELSE b.mProcAddress = a.mProcAddress

\* The record of one call into the caller's code: which function, on which
\* instance (NULL for a static function), with which arguments.
TargetCall(isMember, procAddress, thisPtr, params) ==
    [member |-> isMember, fn |-> procAddress, this |-> thisPtr, args |-> params]

\* What a call of a delegate's method gives the caller: its status ("ok", the
\* exception thrown, or "abort" when an assert ends the process), the value
\* returned, and the calls made into the caller's code.
Outcome(status, value, trace) == [status |-> status, value |-> value, trace |-> trace]

\* StaticDelegate::invoke with the call made before the pointer is looked at.
StaticInvokeUnchecked(d, params) ==
    IF d.mProcAddress = NULL
    THEN Outcome("crash", 0, <<>>)
    ELSE Outcome("ok", StaticReturn(d.mProcAddress),
                 <<TargetCall(FALSE, d.mProcAddress, NULL, params)>>)

\* StaticDelegate::invoke passing the example's arguments instead of its own.
StaticInvokeOtherArgs(d, params) ==
    IF d.mProcAddress = NULL
    THEN Outcome(IF ndebug THEN "InvalidMethodPointerException" ELSE "abort", 0, <<>>)
    ELSE Outcome("ok", StaticReturn(d.mProcAddress),
                 <<TargetCall(FALSE, d.mProcAddress, NULL, ExampleParams)>>)

\* StaticDelegate::invoke(params...): assert(mProcAddress), then the throw
\* for a NULL function pointer, then the call.
StaticInvoke(d, params) ==
    IF d.mProcAddress = NULL /\ ~ndebug
    THEN Outcome("abort", 0, <<>>)
    ELSE IF d.mProcAddress = NULL
         THEN Outcome("InvalidMethodPointerException", 0, <<>>)
         ELSE IF d.mProcAddress = ThrowingProc
              THEN Outcome("std::exception", 0,
                           <<TargetCall(FALSE, d.mProcAddress, NULL, params)>>)
              ELSE Outcome("ok", StaticReturn(d.mProcAddress),
                           <<TargetCall(FALSE, d.mProcAddress, NULL, params)>>)

\* MemberDelegate::invoke with the two checks in the other order.
MemberInvokeMethodFirst(d, params) ==
    IF (d.mThisPtr = NULL \/ d.mProcAddress = NULL) /\ ~ndebug
    THEN Outcome("abort", 0, <<>>)
    ELSE IF d.mProcAddress = NULL
         THEN Outcome("InvalidMethodPointerException", 0, <<>>)
         ELSE IF d.mThisPtr = NULL
              THEN Outcome("InvalidThisPointerException", 0, <<>>)
              ELSE Outcome("ok", MemberReturn(d.mProcAddress),
                           <<TargetCall(TRUE, d.mProcAddress, d.mThisPtr, params)>>)

\* MemberDelegate::invoke(params...): assert(mThisPtr), assert(mProcAddress),
\* then the throw for a NULL this pointer, the throw for a NULL member
\* pointer, then the call on the stored instance.
MemberInvoke(d, params) ==
    IF (d.mThisPtr = NULL \/ d.mProcAddress = NULL) /\ ~ndebug
    THEN Outcome("abort", 0, <<>>)
    ELSE IF d.mThisPtr = NULL
         THEN Outcome("InvalidThisPointerException", 0, <<>>)
         ELSE IF d.mProcAddress = NULL
              THEN Outcome("InvalidMethodPointerException", 0, <<>>)
              ELSE Outcome("ok", MemberReturn(d.mProcAddress),
                           <<TargetCall(TRUE, d.mProcAddress, d.mThisPtr, params)>>)

\* DelegateBase::invoke, virtual: the method of the delegate's class.
Invoke(d, params) ==
    IF d.class = "MemberDelegate" THEN MemberInvoke(d, params) ELSE StaticInvoke(d, params)

\* (*it)->invoke(params...) as the set's loops and the examples call it, with
\* the example's arguments: the status and the value returned.
DelegateInvoke(d) ==
    LET r == Invoke(d, ExampleParams)
    IN  [status |-> r.status, value |-> r.value]

\* An output container assigned the value instead of having it inserted.
SetAssign(s, v) == <<v>>

\* std::set<returnType>::insert(hint, v) on the value set, kept as the sequence
\* its iteration yields: ascending, no value twice.
SetInsert(s, v) ==
    IF \E i \in 1..Len(s) : s[i] = v
    THEN s
    ELSE SelectSeq(s, LAMBDA x : x < v) \o <<v>> \o SelectSeq(s, LAMBDA x : x > v)

\* The loop of DelegateSet::invoke with each call guarded: a member's
\* exception is remembered and the loop goes on to the next member.
RECURSIVE InvokeLoopGuarded(_, _, _, _, _)
InvokeLoopGuarded(heap, seq, i, collect, acc) ==
    IF i > Len(seq)
    THEN acc
    ELSE LET r == DelegateInvoke(heap[seq[i]])
         IN  IF r.status # "ok"
             THEN InvokeLoopGuarded(heap, seq, i + 1, collect,
                     [acc EXCEPT !.status = IF @ = "ok" THEN r.status ELSE @])
             ELSE InvokeLoopGuarded(heap, seq, i + 1, collect,
                     [acc EXCEPT !.calls = Append(@, seq[i]),
                                 !.rets = IF collect THEN SetInsert(@, r.value) ELSE @])

\* The loop of DelegateSet::invoke over the pointers seq from index i on:
\* acc.calls are the delegates whose target has been called, acc.rets the
\* output set; an exception leaves the loop.
RECURSIVE InvokeLoop(_, _, _, _, _)
InvokeLoop(heap, seq, i, collect, acc) ==
    IF i > Len(seq)
    THEN acc
    ELSE LET r == DelegateInvoke(heap[seq[i]])
         IN  IF r.status # "ok"
             THEN [acc EXCEPT !.status = r.status]
             ELSE InvokeLoop(heap, seq, i + 1, collect,
                     [acc EXCEPT !.calls = Append(@, seq[i]),
                                 !.rets = IF collect THEN SetInsert(@, r.value) ELSE @])

\* ------------------------------------------------- DelegateSet operations

\* A fresh record for a call of the given kind.
NewCall(kind, arg) == [NoCall EXCEPT !.kind = kind, !.arg = arg, !.set0 = set]

\* The output containers a caller may pass: an empty one, or the one the
\* previous call filled.
OutArgs == {{}, call.out}
RetsArgs == {<<>>, call.rets}

\* A set keyed by what the delegates wrap, not by their address: a delegate
\* equal to one already held is not inserted.
InsertUnlessSameTarget(s, delegateInstance) ==
    IF \E a \in s : obj[a] = obj[delegateInstance] THEN s ELSE s \cup {delegateInstance}

\* set<DelegateBase*>::insert(end(), delegateInstance): the set is keyed by the
\* pointer value, so a pointer it already holds is not inserted again.
InsertPointer(s, delegateInstance) == s \cup {delegateInstance}

\* The body of push_back, for a call of the given kind.
PushInto(kind, delegateInstance) ==
    /\ pc = "idle"
    /\ delegateInstance \notin deleted
    /\ set' = InsertPointer(set, delegateInstance)
    /\ order' = IF delegateInstance \in set' /\ delegateInstance \notin set
                THEN Append(order, delegateInstance) ELSE order
    /\ call' = NewCall(kind, delegateInstance)
    /\ UNCHANGED <<ndebug, cached, obj, deleted, pc, it>>

\* DelegateSet::push_back: insert(end(), delegateInstance) into the std::set.
\* The caller pushes a delegate that has not been deleted.
push_back(delegateInstance) == PushInto("push_back", delegateInstance)

\* DelegateSet::operator+=: this->push_back(delegateInstance).
operator_plus_eq(delegateInstance) == PushInto("operator+=", delegateInstance)

\* Where a call that ended with the given status leaves the process: an
\* assert that fails ends it.
AfterCall(status) == IF status = "abort" THEN "aborted" ELSE "idle"

\* DelegateSet::invoke(params...): every delegate of the set, in iteration order.
invoke ==
    /\ pc = "idle"
    /\ call' = InvokeLoop(obj, InOrder(set), 1, FALSE, NewCall("invoke", NULL))
    /\ pc' = AfterCall(call'.status)
    /\ UNCHANGED <<ndebug, cached, obj, set, order, deleted, it>>

\* DelegateSet::invoke(set<returnType> &out, params...): the return values
\* are inserted into out.
invoke_collect(out) ==
    /\ pc = "idle"
    /\ call' = InvokeLoop(obj, InOrder(set), 1, TRUE,
                   [NewCall("invoke_collect", NULL) EXCEPT !.rets0 = out, !.rets = out])
    /\ pc' = AfterCall(call'.status)
    /\ UNCHANGED <<ndebug, cached, obj, set, order, deleted, it>>

\* The entry of the three scanning removals: the loop starts at begin().
StartRemove(kind, arg, deleteInstances, hasOut, out) ==
    /\ pc = "idle"
    /\ pc' = "scan"
    /\ it' = Begin(set)
    /\ call' = [NewCall(kind, arg) EXCEPT !.del = deleteInstances, !.hasOut = hasOut,
                                          !.out0 = out, !.out = out]
    /\ UNCHANGED <<ndebug, cached, obj, set, order, deleted>>

\* remove_delegate_procaddress(MemberDelegateFuncPtr<className>, deleteInstances, out)
remove_delegate_procaddress_member(procAddress, deleteInstances, hasOut, out) ==
    StartRemove("remove_member", procAddress, deleteInstances, hasOut, out)

\* remove_delegate_procaddress(StaticDelegateFuncPtr, deleteInstances, out)
remove_delegate_procaddress_static(procAddress, deleteInstances, hasOut, out) ==
    StartRemove("remove_static", procAddress, deleteInstances, hasOut, out)

\* remove_delegate_this(thisPtr, deleteInstances, out)
remove_delegate_this(thisPtr, deleteInstances, hasOut, out) ==
    StartRemove("remove_this", thisPtr, deleteInstances, hasOut, out)

\* A loop condition that compares the stored pointers whatever the
\* delegate's kind.
MatchesAnyKind(kind, d, arg) ==
    CASE kind = "remove_member" -> d.mProcAddress = arg
      [] kind = "remove_static" -> d.mProcAddress = arg
      [] kind = "remove_this" -> d.mThisPtr = arg
      [] OTHER -> FALSE

\* The condition of the removal loop's if, for each of the three removals.
Matches(kind, d, arg) ==
    CASE kind = "remove_member" -> HasProcAddressMember(d, arg)
      [] kind = "remove_static" -> HasProcAddressStatic(d, arg)
      [] kind = "remove_this" -> d.mIsMemberDelegate /\ HasThisPointer(d, arg)
      [] OTHER -> FALSE

\* A match branch that deletes every held delegate wrapping what current
\* wraps, while only current is erased.
DeleteMatchAndEquals(current, deleteInstances) ==
    IF deleteInstances
    THEN deleted \cup {a \in set : obj[a] = obj[current]}
    ELSE deleted

\* What the match branch does to the heap: delete current when deleteInstances.
DeleteMatch(current, deleteInstances) ==
    IF deleteInstances THEN deleted \cup {current} ELSE deleted

\* CollectMatch as the doc comment words it: out is filled when the
\* instances are deleted, and left alone when they are not.
CollectMatchWhenDeleted(current, deleteInstances, hasOut, out) ==
    IF deleteInstances /\ hasOut THEN out \cup {current} ELSE out

\* What the match branch does to out: insert current when the instance is
\* not deleted and an out container was passed.
CollectMatch(current, deleteInstances, hasOut, out) ==
    IF ~deleteInstances /\ hasOut THEN out \cup {current} ELSE out

\* One iteration of a removal loop.  When current matches it is deleted or
\* put in out, and erased from the set; the loop then increments the
\* iterator of the erased element, which is undefined: it may land on any
\* element still in the set or on end().  Without a match, it++ is the
\* successor.
RemoveLoopStep ==
    /\ pc = "scan"
    /\ it # End
    /\ LET current == it
       IN  IF Matches(call.kind, obj[current], call.arg)
           THEN /\ deleted' = DeleteMatch(current, call.del)
                /\ call' = [call EXCEPT !.out = CollectMatch(current, call.del, call.hasOut, @)]
                /\ set' = set \ {current}
                /\ order' = Without(order, current)
                /\ it' \in (set \ {current}) \cup {End}
           ELSE /\ it' = Succ(set, current)
                /\ UNCHANGED <<set, order, deleted, call>>
    /\ UNCHANGED <<ndebug, cached, obj, pc>>

\* The same iteration when incrementing the iterator of the erased element
\* faults: the process ends inside the call.
RemoveLoopCrash ==
    /\ pc = "scan"
    /\ it # End
    /\ Matches(call.kind, obj[it], call.arg)
    /\ deleted' = DeleteMatch(it, call.del)
    /\ call' = [call EXCEPT !.out = CollectMatch(it, call.del, call.hasOut, @)]
    /\ set' = set \ {it}
    /\ order' = Without(order, it)
    /\ pc' = "crashed"
    /\ UNCHANGED <<ndebug, cached, obj, it>>

\* The removal loop ends at end() and the call returns.
RemoveLoopExit ==
    /\ pc = "scan"
    /\ it = End
    /\ pc' = "idle"
    /\ UNCHANGED <<ndebug, cached, obj, set, order, deleted, it, call>>

\* RemoveDelegateReturn with the flag read the wrong way round: the pointer
\* is handed back only when it was deleted.
RemoveDelegateReturnInverted(current, deleteInstance) ==
    IF deleteInstance THEN current ELSE NULL

\* What remove_delegate returns after it has found instance: current.
RemoveDelegateReturn(current, deleteInstance) == current

\* DelegateSet::remove_delegate(instance, deleteInstance): the loop returns
\* from its first match, so no iterator is advanced after the erase.
remove_delegate(instance, deleteInstance) ==
    /\ pc = "idle"
    /\ IF instance \in set
       THEN /\ deleted' = DeleteMatch(instance, deleteInstance)
            /\ set' = set \ {instance}
            /\ order' = Without(order, instance)
            /\ call' = [NewCall("remove_delegate", instance) EXCEPT
                           !.del = deleteInstance,
                           !.ret = RemoveDelegateReturn(instance, deleteInstance)]
       ELSE /\ call' = [NewCall("remove_delegate", instance) EXCEPT
                           !.del = deleteInstance, !.ret = NULL]
            /\ UNCHANGED <<set, order, deleted>>
    /\ UNCHANGED <<ndebug, cached, obj, pc, it>>

\* What destroying the DelegateSet deletes: the class declares no destructor,
\* so the std::set base frees its nodes and no delegate is deleted.
DestructorDeletes(s) == {}

\* The DelegateSet goes out of scope.
Destroy ==
    /\ pc = "idle"
    /\ pc' = "destroyed"
    /\ deleted' = deleted \cup DestructorDeletes(set)
    /\ set' = {}
    /\ order' = <<>>
    /\ call' = NewCall("destroy", NULL)
    /\ UNCHANGED <<ndebug, cached, obj, it>>

\* ------------------------------------------------------------ the caller

\* d->invoke(params...) on a delegate the caller holds, live.
delegate_invoke(d, params) ==
    /\ pc = "idle"
    /\ d \notin deleted
    /\ LET r == Invoke(obj[d], params)
       IN  call' = [NewCall("delegate_invoke", d) EXCEPT
                       !.params = params,
                       !.status = r.status,
                       !.ret = r.value,
                       !.trace = r.trace,
                       !.calls = IF r.status = "ok" THEN <<d>> ELSE <<>>]
    /\ pc' = AfterCall(call'.status)
    /\ UNCHANGED <<ndebug, cached, obj, set, order, deleted, it>>

\* delegateToRemove->invoke("Foo", 3.14, 3.14159): the example's call.
DelegateCall(d) == delegate_invoke(d, ExampleParams)

\* The caller copy-constructs a delegate from one it holds, live.
copy_construct(d) ==
    /\ pc = "idle"
    /\ d \notin deleted
    /\ call' = [NewCall("copy_construct", d) EXCEPT !.copy = CopyConstruct(obj[d])]
    /\ UNCHANGED <<ndebug, cached, obj, set, order, deleted, pc, it>>

\* The caller deletes a delegate it owns: one that is live and not in the set.
CallerDelete(d) ==
    /\ pc = "idle"
    /\ d \notin deleted
    /\ d \notin set
    /\ deleted' = deleted \cup {d}
    /\ call' = NewCall("delete", d)
    /\ UNCHANGED <<ndebug, cached, obj, set, order, pc, it>>

Next ==
    \/ \E d \in Addr : push_back(d)
    \/ invoke
    \/ \E out \in RetsArgs : invoke_collect(out)
    \/ \E p \in Procs, del \in BOOLEAN, hasOut \in BOOLEAN, out \in OutArgs :
          remove_delegate_procaddress_member(p, del, hasOut, out)
    \/ \E p \in Procs, del \in BOOLEAN, hasOut \in BOOLEAN, out \in OutArgs :
          remove_delegate_procaddress_static(p, del, hasOut, out)
    \/ \E t \in Objects, del \in BOOLEAN, hasOut \in BOOLEAN, out \in OutArgs :
          remove_delegate_this(t, del, hasOut, out)
    \/ RemoveLoopStep
    \/ RemoveLoopCrash
    \/ RemoveLoopExit
    \/ \E d \in Addr, del \in BOOLEAN : remove_delegate(d, del)
    \/ Destroy
    \/ \E d \in Addr : DelegateCall(d)
    \/ \E d \in Addr : copy_construct(d)
    \/ \E d \in Addr : CallerDelete(d)

Spec == Init /\ [][Next]_vars

\* ------------------------------------- bulk invocation with faulty targets

\* delegate->has_procaddress(procAddress) with the address of a static function.
has_procaddress_static(d, procAddress) ==
    /\ pc = "idle"
    /\ d \notin deleted
    /\ call' = [NewCall("has_procaddress_static", d) EXCEPT
                   !.other = procAddress,
                   !.answer = HasProcAddressStatic(obj[d], procAddress)]
    /\ UNCHANGED <<ndebug, cached, obj, set, order, deleted, pc, it>>

\* delegate->has_procaddress<className>(procAddress) with the address of a member function.
has_procaddress_member(d, procAddress) ==
    /\ pc = "idle"
    /\ d \notin deleted
    /\ call' = [NewCall("has_procaddress_member", d) EXCEPT
                   !.other = procAddress,
                   !.answer = HasProcAddressMember(obj[d], procAddress)]
    /\ UNCHANGED <<ndebug, cached, obj, set, order, deleted, pc, it>>

\* delegate->has_thispointer(thisPointer).
has_thispointer(d, thisPointer) ==
    /\ pc = "idle"
    /\ d \notin deleted
    /\ call' = [NewCall("has_thispointer", d) EXCEPT
                   !.other = thisPointer,
                   !.answer = HasThisPointer(obj[d], thisPointer)]
    /\ UNCHANGED <<ndebug, cached, obj, set, order, deleted, pc, it>>

\* *a == *b on two delegates the caller holds.
operator_eq(a, b) ==
    /\ pc = "idle"
    /\ a \notin deleted
    /\ b \notin deleted
    /\ call' = [NewCall("operator==", a) EXCEPT
                   !.other = b,
                   !.answer = DelegateEquals(obj[a], obj[b])]
    /\ UNCHANGED <<ndebug, cached, obj, set, order, deleted, pc, it>>

\* The delegates may have NULL targets or wrap a function that throws, and
\* the build may have assertions enabled or not.
InitInvoke ==
    /\ obj \in [Addr -> AnyDelegateValues]
    /\ InitSet
    /\ ndebug \in BOOLEAN
    /\ cached = CachedStaticDelegate(1, ExampleParams)

\* The output containers passed to the collecting invoke: those of RetsArgs,
\* or one that already holds a value from elsewhere, the 2 that the
\* example's member function returns.
FilledRetsArgs == RetsArgs \cup {<<MemberReturn(1)>>}

NextInvoke ==
    \/ \E d \in Addr : push_back(d)
    \/ \E d \in Addr : operator_plus_eq(d)
    \/ invoke
    \/ \E out \in FilledRetsArgs : invoke_collect(out)

SpecInvoke == InitInvoke /\ [][NextInvoke]_vars

\* The calls on single delegates: any delegate a caller can construct, in
\* either build, invoked with any arguments, queried and compared.
NextDelegate ==
    \/ \E d \in Addr, params \in Params : delegate_invoke(d, params)
    \/ \E d \in Addr, p \in {NULL, ThrowingProc} \cup Procs : has_procaddress_static(d, p)
    \/ \E d \in Addr, p \in {NULL} \cup Procs : has_procaddress_member(d, p)
    \/ \E d \in Addr, t \in {NULL} \cup Objects : has_thispointer(d, t)
    \/ \E a \in Addr, b \in Addr : operator_eq(a, b)

SpecDelegate == InitInvoke /\ [][NextDelegate]_vars

\* ------------------------------------------------------ cached delegates

\* The two dispatching methods of a cached delegate.
DispatchKinds == {"dispatch", "generic_dispatch"}

\* A call through a NULL function or member function pointer is undefined:
\* the process crashes in the call, or the call comes back with some value.
NullCallOutcomes(c) ==
    LET through == <<TargetCall(c.isMember, NULL, c.mThisPtr, c.mParameters)>>
    IN  {Outcome("crash", 0, through), Outcome("ok", 0, through)}

\* performCachedCall reading the example's arguments instead of mParameters.
PerformCachedCallOtherArgs(c) ==
    IF c.isMember
    THEN {Outcome("ok", MemberReturn(c.mProcAddress),
                  <<TargetCall(TRUE, c.mProcAddress, c.mThisPtr, ExampleParams)>>)}
    ELSE {Outcome("ok", StaticReturn(c.mProcAddress),
                  <<TargetCall(FALSE, c.mProcAddress, NULL, ExampleParams)>>)}

\* CachedStaticDelegate::performCachedCall: (mProcAddress)(get<S>(mParameters)...),
\* with no check of mProcAddress. CachedMemberDelegate::performCachedCall:
\* assert(mThisPtr), the throw for a NULL this pointer, then
\* (mThisPtr->*mProcAddress)(get<S>(mParameters)...), with no check of
\* mProcAddress. The outcomes the call can have.
PerformCachedCall(c) ==
    IF ~c.isMember
    THEN IF c.mProcAddress = NULL
         THEN NullCallOutcomes(c)
         ELSE {Outcome("ok", StaticReturn(c.mProcAddress),
                       <<TargetCall(FALSE, c.mProcAddress, NULL, c.mParameters)>>)}
    ELSE IF c.mThisPtr = NULL /\ ~ndebug
         THEN {Outcome("abort", 0, <<>>)}
         ELSE IF c.mThisPtr = NULL
              THEN {Outcome("InvalidThisPointerException", 0, <<>>)}
              ELSE IF c.mProcAddress = NULL
                   THEN NullCallOutcomes(c)
                   ELSE {Outcome("ok", MemberReturn(c.mProcAddress),
                                 <<TargetCall(TRUE, c.mProcAddress, c.mThisPtr,
                                              c.mParameters)>>)}

\* A cached call that moves the arguments out of the tuple.
AfterCachedCallMoved(c) == [c EXCEPT !.mParameters = NULL]

\* What performCachedCall leaves in the cached delegate: get<S>(mParameters)
\* copies each argument out of the const tuple and no member is assigned.
AfterCachedCall(c) == c

\* Where a cached call with the given status leaves the process.
AfterCachedCallPc(status) ==
    IF status = "crash" THEN "crashed" ELSE AfterCall(status)

\* The body of dispatch, for a call of the given kind; keepValue tells
\* whether the caller gets the value.
DispatchAs(kind, keepValue) ==
    /\ pc = "idle"
    /\ call.nth < MaxDispatch
    /\ \E r \in PerformCachedCall(cached) :
          /\ call' = [NewCall(kind, NULL) EXCEPT
                         !.status = r.status,
                         !.ret = IF keepValue /\ r.status = "ok" THEN r.value ELSE NULL,
                         !.trace = r.trace,
                         !.nth = call.nth + 1]
          /\ pc' = AfterCachedCallPc(r.status)
    /\ cached' = AfterCachedCall(cached)
    /\ UNCHANGED <<ndebug, obj, set, order, deleted, it>>

\* CachedStaticDelegate::dispatch / CachedMemberDelegate::dispatch:
\* return performCachedCall(...).
dispatch == DispatchAs("dispatch", TRUE)

\* generic_dispatch: { dispatch(); }
generic_dispatch == DispatchAs("generic_dispatch", FALSE)

\* CachedMemberDelegate::has_thispointer: thisPointer == mThisPtr.
\* CachedStaticDelegate::has_thispointer: return true.
CachedHasThisPointer(c, thisPointer) ==
    IF c.isMember THEN thisPointer = c.mThisPtr ELSE TRUE

\* cachedDelegate->has_thispointer(thisPointer).
cached_has_thispointer(thisPointer) ==
    /\ pc = "idle"
    /\ call' = [NewCall("cached_has_thispointer", NULL) EXCEPT
                   !.other = thisPointer,
                   !.answer = CachedHasThisPointer(cached, thisPointer)]
    /\ UNCHANGED <<ndebug, cached, obj, set, order, deleted, pc, it>>

\* Any cached delegate a caller can construct, in either build, next to the
\* three delegates the example constructs.
InitCached ==
    /\ obj = [a \in Addr |-> IF a = 2 THEN MemberDelegate(1, 1) ELSE StaticDelegate(1)]
    /\ InitSet
    /\ ndebug \in BOOLEAN
    /\ cached \in CachedValues

NextCached ==
    \/ dispatch
    \/ generic_dispatch
    \/ \E t \in {NULL} \cup Objects : cached_has_thispointer(t)

SpecCached == InitCached /\ [][NextCached]_vars

\* ------------------------------------------------------------- properties

\* The elements of a sequence.
Range(seq) == {seq[i] : i \in 1..Len(seq)}

\* The three removals that scan the whole set.
ScanKinds == {"remove_member", "remove_static", "remove_this"}

\* The call of the given kind has returned to the caller.
Returned(kind) == pc = "idle" /\ call.kind = kind

\* The delegates of s that the running or last removal's criterion selects.
Matching(s) == {a \in s : Matches(call.kind, obj[a], call.arg)}

\* The delegates the running or last call has taken out of the set.
Removed == call.set0 \ set

\* C1: after remove_delegate_procaddress(f) has returned, no StaticDelegate
\* whose function pointer is f is left in the set (so no later bulk invoke
\* calls f), also when several delegates for f were in it.
C1_NoStaticDelegateLeft ==
    Returned("remove_static") =>
        \A a \in set : ~(~obj[a].mIsMemberDelegate /\ obj[a].mProcAddress = call.arg)

\* C2: after remove_delegate_procaddress(memberPtr) has returned, no
\* MemberDelegate with that member pointer remains in the set, whatever
\* instance it is bound to.
C2_NoMemberDelegateLeft ==
    Returned("remove_member") =>
        \A a \in set : ~(obj[a].mIsMemberDelegate /\ obj[a].mProcAddress = call.arg)

\* C3: after remove_delegate_this(p) has returned, exactly the MemberDelegates
\* bound to p are gone: none bound to p remains, and every StaticDelegate and
\* every MemberDelegate bound to another instance is still in the set.
C3_ExactlyThisRemoved ==
    Returned("remove_this") =>
        /\ \A a \in set : ~(obj[a].mIsMemberDelegate /\ obj[a].mThisPtr = call.arg)
        /\ \A a \in call.set0 :
              (~obj[a].mIsMemberDelegate \/ obj[a].mThisPtr # call.arg) => a \in set

\* The case of C4: remove_delegate(d, false) has returned for a d that was in the set.
C4_Case ==
    Returned("remove_delegate") /\ ~call.del /\ call.arg \in call.set0

\* C4: remove_delegate(d, false) on a d of the set returns d, d is out of the
\* set and not deleted, its target can still be invoked, and the next bulk
\* invoke does not call d while the next d->invoke() calls d's target.
C4_RemoveDelegateKeepsInstance ==
    /\ [](C4_Case =>
            /\ call.ret = call.arg
            /\ call.arg \notin set
            /\ call.arg \notin deleted
            /\ DelegateInvoke(obj[call.arg]).status = "ok")
    /\ [][C4_Case =>
            /\ call'.kind \in {"invoke", "invoke_collect"} => call.arg \notin Range(call'.calls)
            /\ (call'.kind = "delegate_invoke" /\ call'.arg = call.arg) =>
                   (call'.calls = <<call.arg>> /\ call'.status = "ok")]_vars

\* C4's case has happened with other delegates still in the set.
C4_Witness == C4_Case /\ set # {} /\ call.ret = call.arg

\* C5: remove_delegate returns a non-null pointer only when instance was in
\* the set and deleteInstance is false, so never a pointer to a deleted delegate.
C5_NonNullOnlyWhenKept ==
    Returned("remove_delegate") =>
        /\ call.ret # NULL => (call.arg \in call.set0 /\ ~call.del)
        /\ call.ret # NULL => call.ret \notin deleted

\* C6: when the DelegateSet is destroyed, every delegate it still held is deleted.
C6_DestroyDeletesHeld ==
    pc = "destroyed" => call.set0 \subseteq deleted

\* C7: for the scanning removals, with deleteInstances every matching delegate
\* is deleted and out is untouched; without it and with out given, no matching
\* delegate is deleted and out gains exactly the removed pointers.
C7_DeleteOrHandOver ==
    (pc = "idle" /\ call.kind \in ScanKinds) =>
        /\ call.del => (Matching(call.set0) \subseteq deleted /\ call.out = call.out0)
        /\ (~call.del /\ call.hasOut) =>
              /\ Matching(call.set0) \cap deleted = {}
              /\ call.out = call.out0 \cup Removed

C9_OneValuePerMember ==
    (Returned("invoke_collect") /\ call.rets0 = <<>> /\ call.status = "ok") =>
        /\ call.calls = InOrder(set)
        /\ Len(call.rets) = Cardinality(set)

\* C10: with f1 (returns 5) pushed before m1 (returns 2), the collecting
\* invoke calls them in insertion order and out holds 5 then 2.
C10_InsertionOrder ==
    (/\ Returned("invoke_collect") /\ call.rets0 = <<>>
     /\ Len(order) = 2
     /\ obj[order[1]] = StaticDelegate(1)
     /\ obj[order[2]].mIsMemberDelegate /\ obj[order[2]].mProcAddress = 1) =>
        /\ call.calls = order
        /\ call.rets = <<5, 2>>

\* The bulk invoke (either overload) has ended with an exception.
BulkInvokeThrew ==
    /\ call.kind \in {"invoke", "invoke_collect"}
    /\ call.status \notin {"ok", "abort"}

\* C11: when a member's invoke throws, the bulk invoke ends with that
\* exception, the members before it in iteration order have each been invoked
\* once, and no member after it has been invoked.
C11_FailFast ==
    BulkInvokeThrew =>
        \E k \in 1..Len(InOrder(set)) :
            /\ call.calls = SubSeq(InOrder(set), 1, k - 1)
            /\ \A i \in 1..(k - 1) : DelegateInvoke(obj[InOrder(set)[i]]).status = "ok"
            /\ DelegateInvoke(obj[InOrder(set)[k]]).status = call.status

\* A bulk invoke threw at a member that has members before and after it.
C11_Witness ==
    /\ BulkInvokeThrew
    /\ Len(call.calls) >= 1
    /\ Len(call.calls) + 1 < Cardinality(set)

\* The two ways of adding a delegate.
PushKinds == {"push_back", "operator+="}

\* C12: the set holds each delegate pointer at most once. A push adds exactly
\* the pushed pointer, so pushing a pointer already held leaves the set as it
\* was and pushing a distinct delegate adds it even when a held delegate wraps
\* the same target; a bulk invoke that completes has called every held
\* pointer exactly once.
C12_PointerHeldOnce ==
    /\ call.kind \in PushKinds =>
          /\ set = call.set0 \cup {call.arg}
          /\ call.arg \in call.set0 => set = call.set0
    /\ (call.kind \in {"invoke", "invoke_collect"} /\ call.status = "ok") =>
          /\ Range(call.calls) = set
          /\ Len(call.calls) = Cardinality(set)

\* A pointer already held has been pushed again, into a set that also holds
\* a distinct delegate wrapping the same target.
C12_Witness ==
    /\ call.kind \in PushKinds
    /\ call.arg \in call.set0
    /\ \E b \in set : b # call.arg /\ obj[b] = obj[call.arg]

\* The delegate that the last call on a single delegate was made on.
Callee == obj[call.arg]

\* The last call was invoke on a single StaticDelegate / MemberDelegate.
StaticInvoked == call.kind = "delegate_invoke" /\ ~Callee.mIsMemberDelegate
MemberInvoked == call.kind = "delegate_invoke" /\ Callee.mIsMemberDelegate

\* C13: invoke(args) on a delegate whose pointers are all non-null calls the
\* stored target exactly once, with exactly args (a member function on the
\* stored instance), and when the function returns, returns its result.
C13_InvokeCallsTarget ==
    /\ (StaticInvoked /\ Callee.mProcAddress # NULL) =>
          /\ call.trace = <<TargetCall(FALSE, Callee.mProcAddress, NULL, call.params)>>
          /\ Callee.mProcAddress # ThrowingProc =>
                call.status = "ok" /\ call.ret = StaticReturn(Callee.mProcAddress)
    /\ (MemberInvoked /\ Callee.mProcAddress # NULL /\ Callee.mThisPtr # NULL) =>
          /\ call.trace = <<TargetCall(TRUE, Callee.mProcAddress, Callee.mThisPtr,
                                       call.params)>>
          /\ call.status = "ok"
          /\ call.ret = MemberReturn(Callee.mProcAddress)

\* A static delegate has been invoked with arguments other than the
\* example's and has returned.
C13_Witness ==
    /\ StaticInvoked
    /\ call.status = "ok"
    /\ call.params # ExampleParams

\* The last call was invoke on a StaticDelegate with a NULL function pointer.
NullStaticInvoked == StaticInvoked /\ Callee.mProcAddress = NULL

\* C14 as stated: invoking a StaticDelegate with a NULL function pointer
\* raises InvalidMethodPointerException, calls nothing and does not abort.
C14_AsStated ==
    NullStaticInvoked =>
        /\ call.status = "InvalidMethodPointerException"
        /\ call.trace = <<>>
        /\ pc # "aborted"

\* C14: invoking a StaticDelegate with a NULL function pointer calls nothing;
\* in a build with assertions disabled it raises
\* InvalidMethodPointerException to the caller, in a build with assertions
\* enabled the assert ends the process.
C14_NullStaticInvoke ==
    NullStaticInvoked =>
        /\ call.trace = <<>>
        /\ ndebug => call.status = "InvalidMethodPointerException" /\ pc = "idle"
        /\ ~ndebug => call.status = "abort" /\ pc = "aborted"

\* A StaticDelegate with a NULL function pointer has raised the exception.
C14_Witness ==
    /\ NullStaticInvoked
    /\ call.status = "InvalidMethodPointerException"

\* The last call was invoke on a MemberDelegate with a NULL pointer.
NullMemberInvoked ==
    MemberInvoked /\ (Callee.mThisPtr = NULL \/ Callee.mProcAddress = NULL)

\* C15 as stated: MemberDelegate::invoke raises InvalidThisPointerException
\* for a NULL instance, InvalidMethodPointerException for a NULL member
\* pointer on a non-null instance, and does not call the member function.
C15_AsStated ==
    NullMemberInvoked =>
        /\ call.trace = <<>>
        /\ call.status = IF Callee.mThisPtr = NULL
                         THEN "InvalidThisPointerException"
                         ELSE "InvalidMethodPointerException"

\* C15: MemberDelegate::invoke with a NULL instance or member pointer does
\* not call the member function; in a build with assertions disabled it
\* raises InvalidThisPointerException when the instance is NULL (the member
\* pointer NULL or not) and InvalidMethodPointerException when only the
\* member pointer is NULL; in a build with assertions enabled the assert ends
\* the process.
C15_NullMemberInvoke ==
    NullMemberInvoked =>
        /\ call.trace = <<>>
        /\ ndebug =>
              /\ pc = "idle"
              /\ call.status = IF Callee.mThisPtr = NULL
                               THEN "InvalidThisPointerException"
                               ELSE "InvalidMethodPointerException"
        /\ ~ndebug => call.status = "abort" /\ pc = "aborted"

\* A MemberDelegate with both pointers NULL has raised the exception of the
\* instance check.
C15_Witness ==
    /\ MemberInvoked
    /\ Callee.mThisPtr = NULL
    /\ Callee.mProcAddress = NULL
    /\ call.status = "InvalidThisPointerException"

\* C19: two delegates compare equal iff they are of the same kind and store
\* equal function (or member function) pointers; the instance a member
\* delegate is bound to is not compared, and a StaticDelegate and a
\* MemberDelegate are never equal, in either order of the operands.
C19_DelegateEquality ==
    call.kind = "operator==" =>
        /\ call.answer <=>
              /\ Callee.mIsMemberDelegate = obj[call.other].mIsMemberDelegate
              /\ Callee.mProcAddress = obj[call.other].mProcAddress
        /\ call.answer = DelegateEquals(obj[call.other], Callee)

\* Two member delegates bound to different instances and storing the same
\* member function pointer have compared equal.
C19_Witness ==
    /\ call.kind = "operator=="
    /\ Callee.mIsMemberDelegate
    /\ obj[call.other].mIsMemberDelegate
    /\ Callee.mThisPtr # obj[call.other].mThisPtr
    /\ call.answer

\* C20: the match queries are kind-exclusive. has_procaddress with a static
\* address is true only for a StaticDelegate storing that address and false
\* for every MemberDelegate; has_procaddress with a member address is false
\* for every StaticDelegate; has_thispointer(p) is true only for a
\* MemberDelegate whose stored instance is p and false for every
\* StaticDelegate, whatever p is.
C20_KindExclusiveQueries ==
    /\ call.kind = "has_procaddress_static" =>
          /\ call.answer => ~Callee.mIsMemberDelegate /\ Callee.mProcAddress = call.other
          /\ Callee.mIsMemberDelegate => ~call.answer
    /\ call.kind = "has_procaddress_member" =>
          (~Callee.mIsMemberDelegate => ~call.answer)
    /\ call.kind = "has_thispointer" =>
          /\ call.answer => Callee.mIsMemberDelegate /\ Callee.mThisPtr = call.other
          /\ ~Callee.mIsMemberDelegate => ~call.answer

\* has_thispointer(NULL) on a StaticDelegate, which stores no instance, has
\* answered false.
C20_Witness ==
    /\ call.kind = "has_thispointer"
    /\ ~Callee.mIsMemberDelegate
    /\ call.other = NULL
    /\ ~call.answer

\* The cached delegate stores a NULL function, member function or instance pointer.
NullCached ==
    \/ cached.mProcAddress = NULL
    \/ cached.isMember /\ cached.mThisPtr = NULL

\* The one call a cached delegate with non-null pointers makes.
CachedTarget ==
    TargetCall(cached.isMember, cached.mProcAddress, cached.mThisPtr, cached.mParameters)

\* C16: dispatch() and generic_dispatch() on a cached delegate with a NULL
\* function pointer, member pointer or instance pointer raise the null-target
\* error and call nothing.
C16_NullTargetRaises ==
    (call.kind \in DispatchKinds /\ NullCached) =>
        /\ call.status \in {"InvalidThisPointerException", "InvalidMethodPointerException"}
        /\ call.trace = <<>>

\* C17: dispatch() makes exactly one call of the stored callable, with the
\* arguments stored at construction, and returns that call's result;
\* generic_dispatch() makes the same single call and gives the caller no value.
C17_DispatchAppliesStored ==
    (call.kind \in DispatchKinds /\ ~NullCached) =>
        /\ call.status = "ok"
        /\ call.trace = <<CachedTarget>>
        /\ call.kind = "dispatch" =>
              call.ret = IF cached.isMember
                         THEN MemberReturn(cached.mProcAddress)
                         ELSE StaticReturn(cached.mProcAddress)
        /\ call.kind = "generic_dispatch" => call.ret = NULL

\* generic_dispatch() of a cached member delegate constructed with arguments
\* other than the example's has made its call.
C17_Witness ==
    /\ call.kind = "generic_dispatch"
    /\ cached.isMember
    /\ ~NullCached
    /\ cached.mParameters # ExampleParams
    /\ call.status = "ok"

\* C18: a dispatch leaves the stored callable and the stored arguments as
\* they were and, on non-null pointers, returns to a caller that can
\* dispatch again; each dispatch passes the stored arguments, and a dispatch()
\* that follows a dispatch() returns the same value from the same call.
C18_DispatchRepeatable ==
    [][call'.kind \in DispatchKinds =>
          /\ cached' = cached
          /\ ~NullCached =>
                /\ pc' = "idle"
                /\ call'.trace = <<CachedTarget>>
                /\ (call.kind = "dispatch" /\ call'.kind = "dispatch") =>
                      call'.ret = call.ret /\ call'.trace = call.trace]_vars

\* dispatch() has returned for the second time or later.
C18_Witness ==
    /\ call.kind = "dispatch"
    /\ call.nth >= 2
    /\ ~NullCached
    /\ call.status = "ok"

\* The delegate reports its class through its flags.
FlagsTellKind(d) ==
    /\ d.mIsMemberDelegate = (d.class = "MemberDelegate")
    /\ d.mIsCachedDelegate = FALSE

\* C21: every live delegate, and every copy constructed from one, has
\* mIsMemberDelegate false when it is a StaticDelegate and true when it is a
\* MemberDelegate, and mIsCachedDelegate false; no operation changes the
\* flags or the stored pointers of a delegate that is live after it.
C21_FlagsFixed ==
    /\ [](/\ \A a \in Addr \ deleted : FlagsTellKind(obj[a])
          /\ call.kind = "copy_construct" =>
                /\ FlagsTellKind(call.copy)
                /\ call.copy.class = Callee.class
                /\ call.copy.mProcAddress = Callee.mProcAddress
                /\ call.copy.mThisPtr = Callee.mThisPtr)
    /\ [][\A a \in Addr \ deleted' : obj'[a] = obj[a]]_vars

\* A StaticDelegate held in the set has been copy-constructed after a removal
\* deleted another delegate.
C21_Witness ==
    /\ call.kind = "copy_construct"
    /\ call.copy.class = "StaticDelegate"
    /\ call.arg \in set
    /\ deleted # {}

\* C22: CachedStaticDelegate::has_thispointer answers false, whatever the
\* pointer it is asked about.
C22_CachedStaticHasNoThis ==
    (call.kind = "cached_has_thispointer" /\ ~cached.isMember) => ~call.answer

\* C23: every step of a scanning removal goes on from a position that is
\* still valid: after looking at the element under the iterator, erased or
\* not, the scan is at that element's successor in the set, and the process
\* has not faulted on the iterator.
C23_ScanPositionsValid ==
    [][(pc = "scan" /\ it # End) => (pc' # "crashed" /\ it' = Succ(set, it))]_vars

\* C24: every pointer held in the set refers to a delegate that has not been
\* deleted, and a removal that deletes instances deletes, once, delegates
\* that were live: the ones it erases from the set.
C24_HeldDelegatesLive ==
    /\ [](set \cap deleted = {})
    /\ [][(call'.del /\ set' # set) =>
             /\ (set \ set') \cap deleted = {}
             /\ deleted' = deleted \cup (set \ set')]_vars

\* A scanning removal with deleteInstances has deleted a delegate and
\* returned, and the set still holds delegates.
C24_Witness ==
    /\ pc = "idle"
    /\ call.kind \in ScanKinds
    /\ call.del
    /\ call.set0 \cap deleted # {}
    /\ set # {}

\* The four removals.
RemovalKinds == ScanKinds \cup {"remove_delegate"}

\* The delegate at address a meets the criterion of the given removal call:
\* a StaticDelegate of the function address, a MemberDelegate of the member
\* address or of the instance, or the pointer itself.
Criterion(c, a) ==
    CASE c.kind = "remove_static" ->
             obj[a].class = "StaticDelegate" /\ obj[a].mProcAddress = c.arg
      [] c.kind = "remove_member" ->
             obj[a].class = "MemberDelegate" /\ obj[a].mProcAddress = c.arg
      [] c.kind = "remove_this" ->
             obj[a].class = "MemberDelegate" /\ obj[a].mThisPtr = c.arg
      [] c.kind = "remove_delegate" -> a = c.arg
      [] OTHER -> FALSE

\* The removal call c has nothing to remove in the set it was called on.
NoMatch(c) == \A a \in c.set0 : ~Criterion(c, a)

\* C25: during and after a removal, every delegate of the set that does not
\* meet the criterion is still in the set and not deleted; a removal with no
\* match leaves the set and out as they were, and no step of it deletes
\* anything.
C25_OnlyMatchesTouched ==
    /\ [](call.kind \in RemovalKinds =>
             /\ \A a \in call.set0 : ~Criterion(call, a) => a \in set /\ a \notin deleted
             /\ NoMatch(call) => set = call.set0 /\ call.out = call.out0)
    /\ [][(call'.kind \in RemovalKinds /\ NoMatch(call')) => deleted' = deleted]_vars

\* remove_delegate_procaddress with a static address has removed a
\* StaticDelegate and returned, and the set still holds a MemberDelegate
\* whose member pointer has the same value.
C25_Witness ==
    /\ Returned("remove_static")
    /\ set # call.set0
    /\ \E a \in set : obj[a].class = "MemberDelegate" /\ obj[a].mProcAddress = call.arg

\* The two overloads of the bulk invoke.
InvokeKinds == {"invoke", "invoke_collect"}

\* C26: a bulk invoke, of either overload and also when a member raises an
\* error part-way, leaves the set holding the same pointers and deletes
\* nothing; a bulk invoke that directly follows a bulk invoke calls the same
\* members in the same order.
C26_InvokeLeavesSet ==
    [][call'.kind \in InvokeKinds =>
          /\ set' = set
          /\ deleted' = deleted
          /\ call'.set0 = set
          /\ call.kind \in InvokeKinds => call'.calls = call.calls]_vars

\* A bulk invoke on a set of three delegates has ended with an exception
\* after calling a member.
C26_Witness ==
    /\ BulkInvokeThrew
    /\ call.calls # <<>>
    /\ Cardinality(set) = MaxAddr

\* The values the members called by the last bulk invoke returned.
ReturnedValues == {DelegateInvoke(obj[call.calls[i]]).value : i \in 1..Len(call.calls)}

\* C27: after the collecting invoke, also one ended by a member's error, out
\* holds the values it held before the call and the return values of the
\* members that were called, and nothing else; on an empty set out is as it
\* was.
C27_OutOnlyGrows ==
    call.kind = "invoke_collect" =>
        /\ Range(call.rets0) \subseteq Range(call.rets)
        /\ Range(call.rets) = Range(call.rets0) \cup ReturnedValues
        /\ set = {} => call.rets = call.rets0

\* A collecting invoke given an out that held a value no member returns has
\* called a member and then ended with an exception.
C27_Witness ==
    /\ call.kind = "invoke_collect"
    /\ BulkInvokeThrew
    /\ call.calls # <<>>
    /\ Range(call.rets0) \ ReturnedValues # {}

====
